---- MODULE Spec2Model ----
(***************************************************************************)
(* crab_lang: a compiler pipeline  source text -> tokens -> statements ->  *)
(* assembly text  (src/src/lexer.rs, src/src/parser.rs,                    *)
(* src/src/codegen.rs, driven by src/src/main.rs).                         *)
(*                                                                         *)
(* Representation of the Rust values:                                      *)
(*   char            a one-character string                                *)
(*   &str / String   a sequence of chars                                   *)
(*   Token           <<"Let">>, <<"Ident", name>>, <<"Number", n>>, ...    *)
(*   Expr            <<"Num", n>>, <<"Ident", name>>,                      *)
(*                   <<"BinOp", left, op, right>>, <<"UnaryOp", op, e>>    *)
(*   Stmt            <<"Let", name, e>>, <<"Exit", e>>,                    *)
(*                   <<"While", cond, body>>,                              *)
(*                   <<"If", cond, then, elifs, else>> with elifs a        *)
(*                   sequence of <<cond, body>> and else <<"None">> or     *)
(*                   <<"Some", body>>                                      *)
(*   output line     <<indent, format>> or <<indent, format, argument>>    *)
(*                   with indent "" (emit) or "    " (emit_indent)         *)
(*   label           <<prefix, n>> for format!(".{}_{}", prefix, n)        *)
(*   i32             an integer of -2^31 .. 2^31 - 1; its `*` and `+` wrap  *)
(*                   around when the build has overflow checks off and     *)
(*                   panic when it has them on (overflow_checks is the     *)
(*                   build's setting: on for the dev and test profiles,    *)
(*                   off for the release profile)                          *)
(***************************************************************************)
EXTENDS Integers, Sequences, FiniteSets, TLC

VARIABLES phase, source, input, tokens, stmts, next_stmt, cg, asm, panic,
          overflow_checks

vars == <<phase, source, input, tokens, stmts, next_stmt, cg, asm, panic, overflow_checks>>

(***************************************************************************)
(* Generic helpers                                                         *)
(***************************************************************************)
Last(s) == s[Len(s)]

RECURSIVE SeqsUpTo(_, _)
SeqsUpTo(S, n) ==
    IF n = 0 THEN {<<>>}
    ELSE LET shorter == SeqsUpTo(S, n - 1)
         IN  shorter \cup {Append(s, x) : s \in {t \in shorter : Len(t) = n - 1}, x \in S}

RECURSIVE Count(_, _)
Count(s, x) ==
    IF s = <<>> THEN 0 ELSE (IF Head(s) = x THEN 1 ELSE 0) + Count(Tail(s), x)

(***************************************************************************)
(* lexer.rs                                                                *)
(***************************************************************************)
LowerLetters == {"a", "b", "c", "d", "e", "f", "g", "h", "i", "j", "k", "l", "m",
                 "n", "o", "p", "q", "r", "s", "t", "u", "v", "w", "x", "y", "z"}

UpperLetters == {"A", "B", "C", "D", "E", "F", "G", "H", "I", "J", "K", "L", "M",
                 "N", "O", "P", "Q", "R", "S", "T", "U", "V", "W", "X", "Y", "Z"}

Letters == LowerLetters \cup UpperLetters

DigitChars == <<"0", "1", "2", "3", "4", "5", "6", "7", "8", "9">>

Digits == {DigitChars[i] : i \in 1..10}

\* c as i32 - '0' as i32
DigitValue(c) == (CHOOSE i \in 1..10 : DigitChars[i] = c) - 1

Tok(type) == <<type>>

\* the keyword match on identifier.as_str()
classify(identifier) ==
    CASE identifier = <<"l", "e", "t">> -> Tok("Let")
      [] identifier = <<"e", "x", "i", "t">> -> Tok("Exit")
      [] identifier = <<"w", "h", "i", "l", "e">> -> Tok("While")
      [] identifier = <<"i", "f">> -> Tok("If")
      [] identifier = <<"e", "l", "i", "f">> -> Tok("Elif")
      [] identifier = <<"e", "l", "s", "e">> -> Tok("Else")
      [] OTHER -> <<"Ident", identifier>>

\* the inner loop of the identifier arm: push while letter, digit or '_'
RECURSIVE scan_identifier(_, _)
scan_identifier(inp, identifier) ==
    IF inp # <<>> /\ Head(inp) \in Letters \cup Digits \cup {"_"}
    THEN scan_identifier(Tail(inp), Append(identifier, Head(inp)))
    ELSE [text |-> identifier, input |-> inp]

\* i32::MAX; `let mut number = 0` is an i32 by the `c as i32` added to it
I32Max == 2147483647

\* 2^16: an i32 is hi * 2^16 + lo with 0 <= lo < 2^16 and -2^15 <= hi < 2^15
Half == 65536

\* `number * 10 + digit` in i32: the product or the sum is out of the range of i32
i32_overflow(number, digit) ==
    IF number > I32Max \div 10 \/ number < -(I32Max \div 10)
    THEN TRUE
    ELSE number * 10 > I32Max - digit

\* `number * 10 + digit` in i32 with both operations wrapping around: the exact
\* value modulo 2^32 as a two's complement number, computed on the two halves
i32_wrapping(number, digit) ==
    LET lo == (number % Half) * 10 + digit
        hi == (number \div Half) * 10 + (lo \div Half)
    IN  (((hi + (Half \div 2)) % Half) - (Half \div 2)) * Half + (lo % Half)

\* the inner loop of the number arm: number = number * 10 + digit; with overflow
\* checks the first operation that overflows panics
RECURSIVE scan_number(_, _, _)
scan_number(inp, number, checks) ==
    IF inp # <<>> /\ Head(inp) \in Digits
    THEN IF checks /\ i32_overflow(number, DigitValue(Head(inp)))
         THEN [panic |-> TRUE, value |-> number, input |-> inp]
         ELSE scan_number(Tail(inp), i32_wrapping(number, DigitValue(Head(inp))), checks)
    ELSE [panic |-> FALSE, value |-> number, input |-> inp]

LexOut(toks, inp) == [panic |-> FALSE, msg |-> "", toks |-> toks, input |-> inp]

LexPanic == [panic |-> TRUE, msg |-> "Unexpected token", toks |-> <<>>, input |-> <<>>]

\* the panic of an arithmetic operation that overflows under overflow checks
LexOverflow ==
    [panic |-> TRUE, msg |-> "attempt to multiply or add with overflow", toks |-> <<>>,
     input |-> <<>>]

\* '=' arm: next(), then a peeked '=' is consumed too
lex_equal(inp) ==
    LET rest == Tail(inp)
    IN  IF rest # <<>> /\ Head(rest) = "="
        THEN LexOut(<<Tok("EqualEqual")>>, Tail(rest))
        ELSE LexOut(<<Tok("Equal")>>, rest)

\* '>' arm: next(), then a peeked '=' changes the token and is left in the input
lex_greater(inp) ==
    LET rest == Tail(inp)
    IN  IF rest # <<>> /\ Head(rest) = "="
        THEN LexOut(<<Tok("GreaterEqual")>>, rest)
        ELSE LexOut(<<Tok("Greater")>>, rest)

\* '<' arm: next(), then a peeked '=' changes the token and is left in the input
lex_less(inp) ==
    LET rest == Tail(inp)
    IN  IF rest # <<>> /\ Head(rest) = "="
        THEN LexOut(<<Tok("LessEqual")>>, rest)
        ELSE LexOut(<<Tok("Less")>>, rest)

\* '!' arm: next(), panic unless '=' follows, which is consumed
lex_bang(inp) ==
    LET rest == Tail(inp)
    IN  IF rest = <<>> \/ Head(rest) # "="
        THEN LexPanic
        ELSE LexOut(<<Tok("NotEqual")>>, Tail(rest))

\* one iteration of `while let Some(&c) = self.input.peek()` in tokenize
tokenize_step(inp, checks) ==
    LET c == Head(inp)
    IN  CASE c \in Letters ->
               LET r == scan_identifier(inp, <<>>)
               IN  LexOut(<<classify(r.text)>>, r.input)
          [] c \in Digits ->
               LET r == scan_number(inp, 0, checks)
               IN  IF r.panic THEN LexOverflow
                   ELSE LexOut(<<<<"Number", r.value>>>>, r.input)
          [] c = "=" -> lex_equal(inp)
          [] c = ">" -> lex_greater(inp)
          [] c = "<" -> lex_less(inp)
          [] c = "!" -> lex_bang(inp)
          [] c = "+" -> LexOut(<<Tok("Plus")>>, Tail(inp))
          [] c = "-" -> LexOut(<<Tok("Minus")>>, Tail(inp))
          [] c = "*" -> LexOut(<<Tok("Asterisk")>>, Tail(inp))
          [] c = "/" -> LexOut(<<Tok("Slash")>>, Tail(inp))
          [] c = "(" -> LexOut(<<Tok("LParen")>>, Tail(inp))
          [] c = ")" -> LexOut(<<Tok("RParen")>>, Tail(inp))
          [] c = "{" -> LexOut(<<Tok("LBrace")>>, Tail(inp))
          [] c = "}" -> LexOut(<<Tok("RBrace")>>, Tail(inp))
          [] c = ";" -> LexOut(<<Tok("Semicolon")>>, Tail(inp))
          [] OTHER -> LexOut(<<>>, Tail(inp))

(***************************************************************************)
(* parser.rs                                                               *)
(* Every parsing function takes the remaining tokens (the Peekable         *)
(* iterator) and returns [ok, rest, val]: ok = FALSE is a panic.           *)
(***************************************************************************)
POk(rest, val) == [ok |-> TRUE, rest |-> rest, val |-> val]

PPanic == [ok |-> FALSE, rest |-> <<>>, val |-> <<>>]

\* Parser::expect: next() must exist and have the expected discriminant
expect(toks, expected) ==
    IF toks = <<>> THEN PPanic
    ELSE IF Head(toks)[1] # expected THEN PPanic
    ELSE POk(Tail(toks), <<>>)

ComparisonTokens == {"EqualEqual", "NotEqual", "Greater", "GreaterEqual", "Less", "LessEqual"}

comparison_op(type) ==
    CASE type = "EqualEqual" -> "Eq"
      [] type = "NotEqual" -> "NotEq"
      [] type = "Greater" -> "Gt"
      [] type = "GreaterEqual" -> "Gte"
      [] type = "Less" -> "Lt"
      [] type = "LessEqual" -> "Lte"

add_op(type) ==
    CASE type = "Plus" -> "Add"
      [] type = "Minus" -> "Sub"

mul_op(type) ==
    CASE type = "Asterisk" -> "Mul"
      [] type = "Slash" -> "Div"

RECURSIVE parse(_, _)
RECURSIVE parse_elifs(_, _)
RECURSIVE parse_expr(_)
RECURSIVE parse_comparison(_)
RECURSIVE parse_comparison_loop(_, _)
RECURSIVE parse_add(_)
RECURSIVE parse_add_loop(_, _)
RECURSIVE parse_mul(_)
RECURSIVE parse_mul_loop(_, _)
RECURSIVE parse_unary(_)
RECURSIVE parse_primary(_)

\* `?`-style sequencing: a panic in r ends the function, else continue with K(r)
AndThen(r, K(_)) == IF r.ok THEN K(r) ELSE PPanic

\* parse_primary: Number, Ident or a parenthesized parse_expr
parse_primary(toks) ==
    IF toks = <<>> THEN PPanic
    ELSE CASE Head(toks)[1] = "Number" -> POk(Tail(toks), <<"Num", Head(toks)[2]>>)
           [] Head(toks)[1] = "Ident" -> POk(Tail(toks), <<"Ident", Head(toks)[2]>>)
           [] Head(toks)[1] = "LParen" ->
                AndThen(parse_expr(Tail(toks)), LAMBDA e :
                AndThen(expect(e.rest, "RParen"), LAMBDA c :
                POk(c.rest, e.val)))
           [] OTHER -> PPanic

\* parse_unary with a whole product as the operand of a sign
parse_unary_product(toks) ==
    IF toks = <<>> THEN PPanic
    ELSE CASE Head(toks)[1] = "Plus" ->
                AndThen(parse_mul(Tail(toks)), LAMBDA e :
                POk(e.rest, <<"UnaryOp", "Add", e.val>>))
           [] Head(toks)[1] = "Minus" ->
                AndThen(parse_mul(Tail(toks)), LAMBDA e :
                POk(e.rest, <<"UnaryOp", "Sub", e.val>>))
           [] OTHER -> parse_primary(toks)

\* parse_unary: a leading Plus or Minus wraps the following parse_primary
parse_unary(toks) ==
    IF toks = <<>> THEN PPanic
    ELSE CASE Head(toks)[1] = "Plus" ->
                AndThen(parse_primary(Tail(toks)), LAMBDA e :
                POk(e.rest, <<"UnaryOp", "Add", e.val>>))
           [] Head(toks)[1] = "Minus" ->
                AndThen(parse_primary(Tail(toks)), LAMBDA e :
                POk(e.rest, <<"UnaryOp", "Sub", e.val>>))
           [] OTHER -> parse_primary(toks)

\* the while-let loop of parse_mul
parse_mul_loop(toks, left) ==
    IF toks # <<>> /\ Head(toks)[1] \in {"Asterisk", "Slash"}
    THEN AndThen(parse_unary(Tail(toks)), LAMBDA right :
         parse_mul_loop(right.rest, <<"BinOp", left, mul_op(Head(toks)[1]), right.val>>))
    ELSE POk(toks, left)

parse_mul(toks) ==
    AndThen(parse_unary(toks), LAMBDA left : parse_mul_loop(left.rest, left.val))

\* the loop of parse_add with the rest of the chain taken as the right operand
parse_add_loop_right(toks, left) ==
    IF toks # <<>> /\ Head(toks)[1] \in {"Plus", "Minus"}
    THEN AndThen(parse_add(Tail(toks)), LAMBDA right :
         POk(right.rest, <<"BinOp", left, add_op(Head(toks)[1]), right.val>>))
    ELSE POk(toks, left)

\* the while-let loop of parse_add
parse_add_loop(toks, left) ==
    IF toks # <<>> /\ Head(toks)[1] \in {"Plus", "Minus"}
    THEN AndThen(parse_mul(Tail(toks)), LAMBDA right :
         parse_add_loop(right.rest, <<"BinOp", left, add_op(Head(toks)[1]), right.val>>))
    ELSE POk(toks, left)

parse_add(toks) ==
    AndThen(parse_mul(toks), LAMBDA left : parse_add_loop(left.rest, left.val))

\* the while-let loop of parse_comparison
parse_comparison_loop(toks, left) ==
    IF toks # <<>> /\ Head(toks)[1] \in ComparisonTokens
    THEN AndThen(parse_add(Tail(toks)), LAMBDA right :
         parse_comparison_loop(right.rest,
                               <<"BinOp", left, comparison_op(Head(toks)[1]), right.val>>))
    ELSE POk(toks, left)

parse_comparison(toks) ==
    AndThen(parse_add(toks), LAMBDA left : parse_comparison_loop(left.rest, left.val))

parse_expr(toks) == parse_comparison(toks)

\* `(` expr `)` `{` stmts `}`: the shape shared by the while, if and elif arms
parse_cond_block(toks) ==
    AndThen(expect(toks, "LParen"), LAMBDA lp :
    AndThen(parse_expr(lp.rest), LAMBDA cond :
    AndThen(expect(cond.rest, "RParen"), LAMBDA rp :
    AndThen(expect(rp.rest, "LBrace"), LAMBDA lb :
    AndThen(parse(lb.rest, <<>>), LAMBDA block :
    AndThen(expect(block.rest, "RBrace"), LAMBDA rb :
    POk(rb.rest, <<cond.val, block.val>>)))))))

\* the `while let Some(Token::Elif)` loop of the If arm
parse_elifs(toks, elifs) ==
    IF toks # <<>> /\ Head(toks)[1] = "Elif"
    THEN AndThen(parse_cond_block(Tail(toks)), LAMBDA cb :
         parse_elifs(cb.rest, Append(elifs, cb.val)))
    ELSE POk(toks, elifs)

\* the optional `else` `{` stmts `}` of the If arm
parse_else(toks) ==
    IF toks # <<>> /\ Head(toks)[1] = "Else"
    THEN AndThen(expect(Tail(toks), "LBrace"), LAMBDA lb :
         AndThen(parse(lb.rest, <<>>), LAMBDA block :
         AndThen(expect(block.rest, "RBrace"), LAMBDA rb :
         POk(rb.rest, <<"Some", block.val>>))))
    ELSE POk(toks, <<"None">>)

\* Token::Let arm: IDENT `=` expr `;`
parse_let(toks) ==
    IF Tail(toks) = <<>> THEN PPanic
    ELSE IF Head(Tail(toks))[1] # "Ident" THEN PPanic
    ELSE AndThen(expect(Tail(Tail(toks)), "Equal"), LAMBDA eq :
         AndThen(parse_expr(eq.rest), LAMBDA e :
         AndThen(expect(e.rest, "Semicolon"), LAMBDA semi :
         POk(semi.rest, <<"Let", Head(Tail(toks))[2], e.val>>))))

\* Token::Exit arm: `(` expr `)` `;`
parse_exit(toks) ==
    AndThen(expect(Tail(toks), "LParen"), LAMBDA lp :
    AndThen(parse_expr(lp.rest), LAMBDA e :
    AndThen(expect(e.rest, "RParen"), LAMBDA rp :
    AndThen(expect(rp.rest, "Semicolon"), LAMBDA semi :
    POk(semi.rest, <<"Exit", e.val>>)))))

\* Token::While arm
parse_while(toks) ==
    AndThen(parse_cond_block(Tail(toks)), LAMBDA cb :
    POk(cb.rest, <<"While", cb.val[1], cb.val[2]>>))

\* Token::If arm
parse_if(toks) ==
    AndThen(parse_cond_block(Tail(toks)), LAMBDA cb :
    AndThen(parse_elifs(cb.rest, <<>>), LAMBDA elifs :
    AndThen(parse_else(elifs.rest), LAMBDA els :
    POk(els.rest, <<"If", cb.val[1], cb.val[2], elifs.val, els.val>>))))

\* one statement, by the token peeked in Parser::parse
parse_stmt(toks) ==
    CASE Head(toks)[1] = "Let" -> parse_let(toks)
      [] Head(toks)[1] = "Exit" -> parse_exit(toks)
      [] Head(toks)[1] = "While" -> parse_while(toks)
      [] Head(toks)[1] = "If" -> parse_if(toks)
      [] OTHER -> PPanic

\* what Parser::parse does on a peeked `}`: return the statements so far
parse_rbrace(toks, acc) == POk(toks, acc)

\* Parser::parse: the statement loop; acc is `stmts`
parse(toks, acc) ==
    IF toks = <<>> THEN POk(toks, acc)
    ELSE IF Head(toks)[1] = "RBrace" THEN parse_rbrace(toks, acc)
    ELSE AndThen(parse_stmt(toks), LAMBDA s : parse(s.rest, Append(acc, s.val)))

(***************************************************************************)
(* codegen.rs                                                              *)
(* The CodeGen struct is the record [output, vars, stack_offset,           *)
(* label_counter]; the field fail is "" while generation runs and names    *)
(* the reason once it cannot continue (a panic unwinds: nothing more is    *)
(* emitted and no String is returned).                                     *)
(***************************************************************************)
\* CodeGen::new
new_codegen ==
    [output |-> <<>>, vars |-> <<>>, stack_offset |-> 0, label_counter |-> 0, fail |-> ""]

\* new_label that leaves the counter as it is
new_label_same_counter(st, prefix) ==
    [label |-> <<prefix, st.label_counter>>, st |-> st]

\* CodeGen::new_label: format!(".{}_{}", prefix, self.label_counter), then += 1
new_label(st, prefix) ==
    [label |-> <<prefix, st.label_counter>>,
     st |-> [st EXCEPT !.label_counter = @ + 1]]

\* CodeGen::emit
emit(st, line) ==
    IF st.fail # "" THEN st ELSE [st EXCEPT !.output = Append(@, <<"">> \o line)]

\* CodeGen::emit_indent
emit_indent(st, line) ==
    IF st.fail # "" THEN st ELSE [st EXCEPT !.output = Append(@, <<"    ">> \o line)]

RECURSIVE emit_indent_all(_, _)
emit_indent_all(st, lines) ==
    IF lines = <<>> THEN st
    ELSE emit_indent_all(emit_indent(st, <<Head(lines)>>), Tail(lines))

\* the `match op` of the BinOp arm of gen_expr
binop_lines(op) ==
    CASE op = "Add" -> <<"add rax, rbx">>
      [] op = "Sub" -> <<"sub rax, rbx">>
      [] op = "Mul" -> <<"imul rax, rbx">>
      [] op = "Div" -> <<"cqo", "idiv rbx">>
      [] op = "Eq" -> <<"cmp rax, rbx", "sete al", "movzx rax, al">>
      [] op = "NotEq" -> <<"cmp rax, rbx", "setne al", "movzx rax, al">>
      [] op = "Gt" -> <<"cmp rax, rbx", "setg al", "movzx rax, al">>
      [] op = "Gte" -> <<"cmp rax, rbx", "setge al", "movzx rax, al">>
      [] op = "Lt" -> <<"cmp rax, rbx", "setl al", "movzx rax, al">>
      [] op = "Lte" -> <<"cmp rax, rbx", "setle al", "movzx rax, al">>

\* the `match op` of the UnaryOp arm of gen_expr: any operator but Sub only
\* prints "Unary Operator error" to stdout and emits nothing
unary_lines(op) ==
    IF op = "Sub" THEN <<"neg rax">> ELSE <<>>

\* the Ident arm of gen_expr: vars.get(name) or panic
gen_ident(st, name) ==
    IF name \in DOMAIN st.vars
    THEN emit_indent(st, <<"mov rax, [rbp{}]", st.vars[name]>>)
    ELSE [st EXCEPT !.fail = "undefined variable"]

RECURSIVE gen_expr(_, _)
RECURSIVE gen_stmt(_, _)
RECURSIVE gen_stmts(_, _)
RECURSIVE gen_elifs(_, _, _, _)

\* the BinOp arm with the left operand lowered and pushed first
gen_binop_left_first(st, left, op, right) ==
    LET s1 == emit_indent(gen_expr(st, left), <<"push rax">>)
        s2 == emit_indent(gen_expr(s1, right), <<"pop rbx">>)
    IN  emit_indent_all(s2, binop_lines(op))

\* the BinOp arm of gen_expr: right, push, left, pop, operation
gen_binop(st, left, op, right) ==
    LET s1 == emit_indent(gen_expr(st, right), <<"push rax">>)
        s2 == emit_indent(gen_expr(s1, left), <<"pop rbx">>)
    IN  emit_indent_all(s2, binop_lines(op))

\* the UnaryOp arm of gen_expr
gen_unary(st, op, e) ==
    emit_indent_all(gen_expr(st, e), unary_lines(op))

\* CodeGen::gen_expr
gen_expr(st, e) ==
    IF st.fail # "" THEN st
    ELSE CASE e[1] = "Num" -> emit_indent(st, <<"mov rax, {}", e[2]>>)
           [] e[1] = "Ident" -> gen_ident(st, e[2])
           [] e[1] = "BinOp" -> gen_binop(st, e[2], e[3], e[4])
           [] e[1] = "UnaryOp" -> gen_unary(st, e[2], e[3])

\* gen_let with the name inserted before its initializer is lowered
gen_let_bind_first(st, name, e) ==
    LET offset == st.stack_offset - 8
        s0 == [st EXCEPT !.stack_offset = offset,
                         !.vars = [n \in DOMAIN st.vars \cup {name} |->
                                      IF n = name THEN offset ELSE st.vars[n]]]
        s1 == gen_expr(emit_indent(s0, <<"; let {} = ...", name>>), e)
    IN  IF s1.fail # "" THEN s1
        ELSE emit(emit_indent(s1, <<"mov [rbp{}], rax", offset>>), <<"">>)

\* gen_let with a re-declared name keeping the slot it has
gen_let_reuse_slot(st, name, e) ==
    LET s1 == gen_expr(emit_indent(st, <<"; let {} = ...", name>>), e)
        fresh == name \notin DOMAIN s1.vars
        offset == IF fresh THEN s1.stack_offset - 8 ELSE s1.vars[name]
        s2 == [s1 EXCEPT !.stack_offset = IF fresh THEN offset ELSE @,
                         !.vars = [n \in DOMAIN s1.vars \cup {name} |->
                                      IF n = name THEN offset ELSE s1.vars[n]]]
    IN  IF s1.fail # "" THEN s1
        ELSE emit(emit_indent(s2, <<"mov [rbp{}], rax", offset>>), <<"">>)

\* the Let arm of gen_stmt
gen_let(st, name, e) ==
    LET s1 == gen_expr(emit_indent(st, <<"; let {} = ...", name>>), e)
        offset == s1.stack_offset - 8
        s2 == [s1 EXCEPT !.stack_offset = offset,
                         !.vars = [n \in DOMAIN s1.vars \cup {name} |->
                                      IF n = name THEN offset ELSE s1.vars[n]]]
    IN  IF s1.fail # "" THEN s1
        ELSE emit(emit_indent(s2, <<"mov [rbp{}], rax", offset>>), <<"">>)

\* the Exit arm of gen_stmt
gen_exit(st, e) ==
    LET s1 == gen_expr(emit_indent(st, <<"; exit">>), e)
    IN  emit(emit_indent_all(s1, <<"mov rdi, rax", "mov rax, 60", "syscall">>), <<"">>)

\* `for stmt in body { self.gen_stmt(stmt) }`
gen_stmts(st, body) ==
    IF body = <<>> THEN st ELSE gen_stmts(gen_stmt(st, Head(body)), Tail(body))

\* gen_elifs that makes no new label for the elif: its `je` goes to its own label
gen_elifs_own_label(st, elif_branches, next_label, end_label) ==
    IF elif_branches = <<>> THEN [st |-> st, next_label |-> next_label]
    ELSE LET elif_cond == Head(elif_branches)[1]
             elif_body == Head(elif_branches)[2]
             nl == new_label(emit(st, <<"{}:", next_label>>), "elif")
             s1 == gen_expr(emit_indent(nl.st, <<"; elif condition">>), elif_cond)
             s2 == emit_indent(emit_indent(s1, <<"cmp rax, 0">>), <<"je {}", next_label>>)
             s3 == gen_stmts(emit_indent(s2, <<"; elif block">>), elif_body)
             s4 == emit_indent(s3, <<"jmp {}", end_label>>)
         IN  gen_elifs(s4, Tail(elif_branches), nl.label, end_label)

\* `for (elif_cond, elif_body) in elif_branches`; returns the state and next_label
gen_elifs(st, elif_branches, next_label, end_label) ==
    IF elif_branches = <<>> THEN [st |-> st, next_label |-> next_label]
    ELSE LET elif_cond == Head(elif_branches)[1]
             elif_body == Head(elif_branches)[2]
             nl == new_label(emit(st, <<"{}:", next_label>>), "elif")
             s1 == gen_expr(emit_indent(nl.st, <<"; elif condition">>), elif_cond)
             s2 == emit_indent(emit_indent(s1, <<"cmp rax, 0">>), <<"je {}", nl.label>>)
             s3 == gen_stmts(emit_indent(s2, <<"; elif block">>), elif_body)
             s4 == emit_indent(s3, <<"jmp {}", end_label>>)
         IN  gen_elifs(s4, Tail(elif_branches), nl.label, end_label)

\* the branch of the If arm taken when there is no elif and no else
gen_if_simple(st, then_body, end_label) ==
    LET s1 == emit_indent(st, <<"je {}", end_label>>)
    IN  gen_stmts(emit_indent(s1, <<"; then block">>), then_body)

\* the branch of the If arm taken with elif and/or else branches
gen_if_chain(st, then_body, elif_branches, else_body, end_label) ==
    LET nl == new_label(st, "elif")
        s1 == emit_indent(nl.st, <<"je {}", nl.label>>)
        s2 == gen_stmts(emit_indent(s1, <<"; then block">>), then_body)
        s3 == emit_indent(s2, <<"jmp {}", end_label>>)
        el == gen_elifs(s3, elif_branches, nl.label, end_label)
        s4 == emit(el.st, <<"{}:", el.next_label>>)
    IN  IF else_body[1] = "Some"
        THEN gen_stmts(emit_indent(s4, <<"; else block">>), else_body[2])
        ELSE s4

\* the If arm with the symbol table of before the statement put back at its end
gen_if_scoped(st, cond, then_body, elif_branches, else_body) ==
    LET nl == new_label(st, "if_end")
        s1 == gen_expr(emit_indent(nl.st, <<"; if condition">>), cond)
        s2 == emit_indent(s1, <<"cmp rax, 0">>)
        s3 == IF elif_branches = <<>> /\ else_body[1] = "None"
              THEN gen_if_simple(s2, then_body, nl.label)
              ELSE gen_if_chain(s2, then_body, elif_branches, else_body, nl.label)
    IN  [emit(emit(s3, <<"{}:", nl.label>>), <<"">>) EXCEPT !.vars = st.vars]

\* the If arm of gen_stmt
gen_if(st, cond, then_body, elif_branches, else_body) ==
    LET nl == new_label(st, "if_end")
        s1 == gen_expr(emit_indent(nl.st, <<"; if condition">>), cond)
        s2 == emit_indent(s1, <<"cmp rax, 0">>)
        s3 == IF elif_branches = <<>> /\ else_body[1] = "None"
              THEN gen_if_simple(s2, then_body, nl.label)
              ELSE gen_if_chain(s2, then_body, elif_branches, else_body, nl.label)
    IN  emit(emit(s3, <<"{}:", nl.label>>), <<"">>)

\* Stmt::While has no arm in the match of gen_stmt: nothing lowers it
gen_while(st, cond, body) == [st EXCEPT !.fail = "no While arm"]

\* CodeGen::gen_stmt
gen_stmt(st, s) ==
    IF st.fail # "" THEN st
    ELSE CASE s[1] = "Let" -> gen_let(st, s[2], s[3])
           [] s[1] = "Exit" -> gen_exit(st, s[2])
           [] s[1] = "If" -> gen_if(st, s[2], s[3], s[4], s[5])
           [] s[1] = "While" -> gen_while(st, s[2], s[3])

\* the bodies of a list of elif branches, one after the other
RECURSIVE elif_bodies(_)
elif_bodies(elifs) ==
    IF elifs = <<>> THEN <<>> ELSE Head(elifs)[2] \o elif_bodies(Tail(elifs))

\* var_count with the Lets inside if, elif and else bodies counted too
RECURSIVE var_count_deep(_)
var_count_deep(program) ==
    IF program = <<>> THEN 0
    ELSE LET s == Head(program)
         IN  (CASE s[1] = "Let" -> 1
                [] s[1] = "If" ->
                      var_count_deep(s[3] \o elif_bodies(s[4])
                                     \o (IF s[5][1] = "Some" THEN s[5][2] ELSE <<>>))
                [] OTHER -> 0)
             + var_count_deep(Tail(program))

\* stmts.iter().filter(|s| matches!(s, Stmt::Let(_, _))).count()
var_count(program) == Cardinality({i \in 1..Len(program) : program[i][1] = "Let"})

\* stack_space that reserves room for two slots whatever the count
stack_space_two_slots(n) == 16

\* ((var_count * 8 + 15) / 16) * 16
stack_space(n) == ((n * 8 + 15) \div 16) * 16

\* generate, up to the statement loop: sections, _start, frame set-up
gen_prologue(st, program) ==
    LET s1 == emit(emit(st, <<"section .data">>), <<"">>)
        s2 == emit(emit(s1, <<"section .bss">>), <<"">>)
        s3 == emit(emit(emit(s2, <<"section .text">>), <<"global _start">>), <<"">>)
        s4 == emit_indent_all(emit(s3, <<"_start:">>), <<"push rbp", "mov rbp, rsp">>)
        s5 == IF var_count(program) > 0
              THEN emit_indent(s4, <<"sub rsp, {}", stack_space(var_count(program))>>)
              ELSE s4
    IN  emit(s5, <<"">>)

\* generate, after the statement loop: the default exit
gen_epilogue(st) ==
    emit_indent_all(emit(st, <<"">>),
                    <<"; default exit", "mov rax, 60", "xor rdi, rdi", "syscall">>)

(***************************************************************************)
(* Inputs.  A run starts either in Lexer::new(source) with a source text,  *)
(* or in Parser::new(tokens) with a token vector the lexer produces from a *)
(* longer text than the enumerated ones (any token vector over these       *)
(* tokens is the tokenization of its tokens written with spaces between).  *)
(***************************************************************************)
MaxSrcLen == 4

MaxExprToks == 5

MaxElifs == 2

MaxLets == 3

SrcChars == {"a", "1", "=", ">", "<", "!", " "}

\* the sources of the repository's tests and of the specification's examples
SampleSources ==
    {<<"l", "e", "t", " ", "x", " ", "=", " ", "5", ";", " ", "l", "e", "t", " ", "y", " ",
       "=", " ", "x", "+", "(", "4", "+", "2", ")", "/", "2", ";", " ", "l", "e", "t",
       " ", "z", " ", "=", " ", "x", "+", "y", ";", " ", "e", "x", "i", "t", " ", "z",
       " ", "+", " ", "2", ";">>,
     <<"l", "e", "t", " ", "x", " ", "=", " ", "5", " ", "=", "=", " ", "5", ";", " ", "e",
       "x", "i", "t", "(", "x", ")", ";">>,
     <<"l", "e", "t", " ", "x", " ", "=", " ", "1", "0", " ", ">", " ", "5", ";", " ", "e",
       "x", "i", "t", "(", "x", ")", ";">>,
     <<"e", "x", "i", "t", "(", "4", "2", ")", ";">>,
     <<"l", "e", "t", " ", "x", " ", "=", " ", "1", "0", ";", " ", "e", "x", "i", "t", "(",
       "x", ")", ";">>,
     <<"e", "x", "i", "t", "(", "2", " ", "+", " ", "3", " ", "*", " ", "4", ")", ";">>,
     <<"1", " ", "+", " ", "2", " ", "*", " ", "3">>,
     <<"l", "e", "t", " ", "a", " ", "=", " ", "1", " ", "+", " ", "2", " ", "*", " ", "3",
       ";">>,
     <<"l", "e", "t", " ", "a", " ", "=", " ", "1", " ", "<", " ", "2", " ", "+", " ", "3",
       " ", "*", " ", "4", ";">>,
     <<"l", "e", "t", " ", "a", " ", "=", " ", "8", " ", "/", " ", "4", " ", "/", " ", "2",
       ";">>,
     <<"e", "x", "i", "t", "(", "2", "1", "4", "7", "4", "8", "3", "6", "4", "7", ")", ";">>,
     <<"e", "x", "i", "t", "(", "2", "1", "4", "7", "4", "8", "3", "6", "4", "8", ")", ";">>,
     <<"l", "e", "t", " ", "x", " ", "=", " ", "4", "2", "9", "4", "9", "6", "7", "2", "9",
       "7", ";">>,
     <<"9", "9", "9", "9", "9", "9", "9", "9", "9", "9", " ", "7">>,
     <<"3", "0", "0", "0", "0", "0", "0", "0", "0", "0", "0">>,
     <<"e", "x", "i", "t", "(", "-", "2", "*", "3", ")", ";">>,
     <<"e", "x", "i", "t", "(", "+", "1", ")", ";">>,
     <<"l", "e", "t", " ", "x", " ", "=", " ", "1", ";", " ", "l", "e", "t", " ", "x", " ",
       "=", " ", "2", ";", " ", "e", "x", "i", "t", "(", "x", ")", ";">>,
     <<"e", "x", "i", "t", "(", "y", ")", ";">>,
     <<"l", "e", "t", " ", "x", " ", "=", " ", "x", ";">>,
     <<"l", "e", "t", " ", "x", " ", "=", " ", "1", ";", " ", "w", "h", "i", "l", "e", " ",
       "(", "x", " ", "<", "=", " ", "3", ")", " ", "{", " ", "l", "e", "t", " ", "x",
       " ", "=", " ", "x", " ", "+", " ", "1", ";", " ", "}", " ", "e", "x", "i", "t",
       "(", "x", ")", ";">>,
     <<"l", "e", "t", " ", "x", " ", "=", " ", "2", ";", " ", "i", "f", " ", "(", "x", " ",
       ">", "=", " ", "1", ")", " ", "{", " ", "e", "x", "i", "t", "(", "1", ")", ";",
       " ", "}", " ", "e", "l", "i", "f", " ", "(", "x", " ", "!", "=", " ", "0", ")",
       " ", "{", " ", "e", "x", "i", "t", "(", "2", ")", ";", " ", "}", " ", "e", "l",
       "s", "e", " ", "{", " ", "e", "x", "i", "t", "(", "3", ")", ";", " ", "}">>}

Sources == SeqsUpTo(SrcChars, MaxSrcLen) \cup SampleSources

NameA == <<"a">>

NameX == <<"x">>

NameY == <<"y">>

ExprToks == {<<"Ident", NameA>>, Tok("Plus"), Tok("Minus"), Tok("Asterisk"), Tok("Less"),
             Tok("LParen"), Tok("RParen")}

\* `let a = 1; let a = ` e `;` for every token sequence e over ExprToks
ExprTokenInputs ==
    {<<Tok("Let"), <<"Ident", NameA>>, Tok("Equal"), <<"Number", 1>>, Tok("Semicolon"),
       Tok("Let"), <<"Ident", NameA>>, Tok("Equal")>> \o e \o <<Tok("Semicolon")>> :
        e \in SeqsUpTo(ExprToks, MaxExprToks)}

Num1 == <<"Num", 1>>

IdX == <<"Ident", NameX>>

IdY == <<"Ident", NameY>>

NoElse == <<"None">>

Leaves == {<<"Let", NameX, Num1>>, <<"Let", NameX, IdX>>, <<"Let", NameY, IdX>>,
           <<"Exit", IdY>>}

LeafBodies == {<<>>} \cup {<<l>> : l \in Leaves}

InnerIfs ==
    {<<"If", Num1, t, el, e>> :
        t \in {<<>>, <<<<"Let", NameX, Num1>>>>},
        el \in SeqsUpTo({<<Num1, <<>>>>}, 1),
        e \in {NoElse, <<"Some", <<>>>>}}

SimpleIf == <<"If", Num1, <<>>, <<>>, NoElse>>

Bodies == LeafBodies \cup {<<i>> : i \in InnerIfs}

ElifOpts == {<<Num1, <<>>>>, <<IdX, <<<<"Let", NameY, IdX>>>>>>, <<Num1, <<SimpleIf>>>>}

ElseOpts == {NoElse, <<"Some", <<>>>>, <<"Some", <<<<"Exit", IdY>>>>>>, <<"Some", <<SimpleIf>>>>}

Ifs ==
    {<<"If", c, t, el, e>> :
        c \in {Num1, IdX}, t \in Bodies, el \in SeqsUpTo(ElifOpts, MaxElifs), e \in ElseOpts}

Whiles == {<<"While", IdX, b>> : b \in LeafBodies}

Compounds == Ifs \cup Whiles

Programs ==
    SeqsUpTo(Leaves, MaxLets)
    \cup {<<s>> : s \in Compounds}
    \cup {<<l, s>> : l \in Leaves, s \in Compounds}
    \cup {<<s, l>> : s \in Compounds, l \in Leaves}
    \cup {<<<<"Let", NameX, Num1>>, s, l>> : s \in Compounds, l \in Leaves}
    \cup {<<i, j>> : i \in InnerIfs, j \in InnerIfs}

\* the token vector of an expression, operands that are not atoms parenthesized
RECURSIVE ExprTokens(_)
OperandTokens(e) ==
    IF e[1] \in {"Num", "Ident"} THEN ExprTokens(e)
    ELSE <<Tok("LParen")>> \o ExprTokens(e) \o <<Tok("RParen")>>

OpToken(op) ==
    CASE op = "Add" -> Tok("Plus")
      [] op = "Sub" -> Tok("Minus")
      [] op = "Mul" -> Tok("Asterisk")
      [] op = "Div" -> Tok("Slash")
      [] op = "Eq" -> Tok("EqualEqual")
      [] op = "NotEq" -> Tok("NotEqual")
      [] op = "Gt" -> Tok("Greater")
      [] op = "Gte" -> Tok("GreaterEqual")
      [] op = "Lt" -> Tok("Less")
      [] op = "Lte" -> Tok("LessEqual")

ExprTokens(e) ==
    CASE e[1] = "Num" -> <<<<"Number", e[2]>>>>
      [] e[1] = "Ident" -> <<<<"Ident", e[2]>>>>
      [] e[1] = "BinOp" -> OperandTokens(e[2]) \o <<OpToken(e[3])>> \o OperandTokens(e[4])
      [] e[1] = "UnaryOp" -> <<OpToken(e[2])>> \o OperandTokens(e[3])

\* the token vector of a statement sequence written in the source language
RECURSIVE StmtsTokens(_)
RECURSIVE ElifsTokens(_)
CondBlockTokens(cond, body) ==
    <<Tok("LParen")>> \o ExprTokens(cond) \o <<Tok("RParen"), Tok("LBrace")>>
        \o StmtsTokens(body) \o <<Tok("RBrace")>>

ElifsTokens(elifs) ==
    IF elifs = <<>> THEN <<>>
    ELSE <<Tok("Elif")>> \o CondBlockTokens(Head(elifs)[1], Head(elifs)[2])
            \o ElifsTokens(Tail(elifs))

StmtTokens(s) ==
    CASE s[1] = "Let" ->
            <<Tok("Let"), <<"Ident", s[2]>>, Tok("Equal")>> \o ExprTokens(s[3])
                \o <<Tok("Semicolon")>>
      [] s[1] = "Exit" ->
            <<Tok("Exit"), Tok("LParen")>> \o ExprTokens(s[2])
                \o <<Tok("RParen"), Tok("Semicolon")>>
      [] s[1] = "While" -> <<Tok("While")>> \o CondBlockTokens(s[2], s[3])
      [] s[1] = "If" ->
            <<Tok("If")>> \o CondBlockTokens(s[2], s[3]) \o ElifsTokens(s[4])
                \o (IF s[5][1] = "Some"
                    THEN <<Tok("Else"), Tok("LBrace")>> \o StmtsTokens(s[5][2])
                            \o <<Tok("RBrace")>>
                    ELSE <<>>)

StmtsTokens(body) ==
    IF body = <<>> THEN <<>> ELSE StmtTokens(Head(body)) \o StmtsTokens(Tail(body))

ProgramTokenInputs == {StmtsTokens(p) : p \in Programs}

\* token vectors that are one edit away from a program: cut short, one token
\* dropped, or a `}` put in
EditedPrograms ==
    {<<s>> : s \in Leaves \cup Whiles}
    \cup {<<<<"If", Num1, t, el, e>>>> :
            t \in LeafBodies,
            el \in SeqsUpTo({<<Num1, <<>>>>}, MaxElifs),
            e \in {NoElse, <<"Some", <<>>>>, <<"Some", <<<<"Exit", IdY>>>>>>}}

Without(t, i) == SubSeq(t, 1, i - 1) \o SubSeq(t, i + 1, Len(t))

WithRBrace(t, i) == SubSeq(t, 1, i) \o <<Tok("RBrace")>> \o SubSeq(t, i + 1, Len(t))

EditedTokenInputs ==
    UNION {LET t == StmtsTokens(p)
           IN  {SubSeq(t, 1, i) : i \in 0..Len(t)}
               \cup {Without(t, i) : i \in 1..Len(t)}
               \cup {WithRBrace(t, i) : i \in 0..Len(t)} : p \in EditedPrograms}

TokenInputs == ExprTokenInputs \cup ProgramTokenInputs \cup EditedTokenInputs

(***************************************************************************)
(* main.rs: tokenize, parse, generate, in this order                       *)
(***************************************************************************)
Init ==
    /\ \/ /\ phase = "lex"
          /\ source \in Sources
          /\ input = source
          /\ tokens = <<>>
          /\ overflow_checks \in BOOLEAN
       \/ /\ phase = "parse"
          /\ source = <<>>
          /\ input = <<>>
          /\ tokens \in TokenInputs
          \* the parser and the code generator have no arithmetic that can overflow:
          \* past the lexer the build's setting makes no difference
          /\ overflow_checks = FALSE
    /\ stmts = <<>>
    /\ next_stmt = 1
    /\ cg = new_codegen
    /\ asm = <<>>
    /\ panic = ""

\* one iteration of the loop of Lexer::tokenize
LexStep ==
    /\ phase = "lex"
    /\ input # <<>>
    /\ LET r == tokenize_step(input, overflow_checks)
       IN  IF r.panic
           THEN /\ phase' = "failed"
                /\ panic' = r.msg
                /\ UNCHANGED <<input, tokens>>
           ELSE /\ input' = r.input
                /\ tokens' = tokens \o r.toks
                /\ UNCHANGED <<phase, panic>>
    /\ UNCHANGED <<source, stmts, next_stmt, cg, asm, overflow_checks>>

\* tokenize returns its Vec<Token>; main hands it to Parser::new
LexReturn ==
    /\ phase = "lex"
    /\ input = <<>>
    /\ phase' = "parse"
    /\ UNCHANGED <<source, input, tokens, stmts, next_stmt, cg, asm, panic, overflow_checks>>

\* main's call Parser::new(tokens).parse(); tokens becomes what the parser
\* left in its iterator
Parse ==
    /\ phase = "parse"
    /\ LET r == parse(tokens, <<>>)
       IN  IF r.ok
           THEN /\ stmts' = r.val
                /\ tokens' = r.rest
                /\ phase' = "prologue"
                /\ UNCHANGED panic
           ELSE /\ phase' = "failed"
                /\ panic' = "parse error"
                /\ UNCHANGED <<stmts, tokens>>
    /\ UNCHANGED <<source, input, next_stmt, cg, asm, overflow_checks>>

\* CodeGen::new().generate(&stmts) up to its statement loop
GenStart ==
    /\ phase = "prologue"
    /\ cg' = gen_prologue(new_codegen, stmts)
    /\ phase' = "statements"
    /\ UNCHANGED <<source, input, tokens, stmts, next_stmt, asm, panic, overflow_checks>>

\* one iteration of `for stmt in stmts { self.gen_stmt(stmt) }`
GenStmt ==
    /\ phase = "statements"
    /\ next_stmt <= Len(stmts)
    /\ LET st == gen_stmt(cg, stmts[next_stmt])
       IN  /\ cg' = st
           /\ IF st.fail # ""
              THEN phase' = "failed" /\ panic' = st.fail /\ UNCHANGED next_stmt
              ELSE next_stmt' = next_stmt + 1 /\ UNCHANGED <<phase, panic>>
    /\ UNCHANGED <<source, input, tokens, stmts, asm, overflow_checks>>

\* the default exit, and generate returns self.output
GenFinish ==
    /\ phase = "statements"
    /\ next_stmt > Len(stmts)
    /\ cg' = gen_epilogue(cg)
    /\ asm' = cg'.output
    /\ phase' = "done"
    /\ UNCHANGED <<source, input, tokens, stmts, next_stmt, panic, overflow_checks>>

Next == LexStep \/ LexReturn \/ Parse \/ GenStart \/ GenStmt \/ GenFinish

Spec == Init /\ [][Next]_vars

(***************************************************************************)
(* Properties                                                              *)
(***************************************************************************)
\* the characters tokenize has consumed so far
Consumed == SubSeq(source, 1, Len(source) - Len(input))

\* the positions of s where c is directly followed by d
PairsAt(s, c, d) == {i \in 1..(Len(s) - 1) : s[i] = c /\ s[i + 1] = d}

\* the positions of Consumed that hold c and are not followed by `=` in the source
LoneAt(c) ==
    {i \in 1..Len(Consumed) : source[i] = c /\ (i = Len(source) \/ source[i + 1] # "=")}

\* C1: while tokenizing, every `>=` (`<=`) among the consumed characters has
\* produced exactly one GreaterEqual (LessEqual) token and both its characters are
\* consumed, every `>` (`<`) not followed by `=` has produced one Greater (Less),
\* and every consumed `=` belongs to exactly one token: Equal and the two-character
\* comparisons hold one `=` each, EqualEqual holds two.
C1_TwoCharComparisons ==
    phase = "lex" =>
        /\ Count(tokens, Tok("GreaterEqual")) = Cardinality(PairsAt(Consumed, ">", "="))
        /\ Count(tokens, Tok("LessEqual")) = Cardinality(PairsAt(Consumed, "<", "="))
        /\ Count(tokens, Tok("Greater")) = Cardinality(LoneAt(">"))
        /\ Count(tokens, Tok("Less")) = Cardinality(LoneAt("<"))
        /\ Count(Consumed, "=") =
              Count(tokens, Tok("Equal")) + 2 * Count(tokens, Tok("EqualEqual"))
              + Count(tokens, Tok("GreaterEqual")) + Count(tokens, Tok("LessEqual"))
              + Count(tokens, Tok("NotEqual"))

\* C2: when the top-level Parser::parse returns normally it has consumed every
\* token: it never returns the statements of a prefix and leaves the rest unread.
C2_ParseConsumesAll ==
    phase = "prologue" => tokens = <<>>

LabelDefs(out) == {i \in 1..Len(out) : Len(out[i]) = 3 /\ out[i][2] = "{}:"}

Jumps(out, format) == {i \in 1..Len(out) : Len(out[i]) = 3 /\ out[i][2] = format}

\* the top-level statements generate has handed to gen_stmt so far
Reached ==
    CASE phase \in {"statements", "done"} -> next_stmt - 1
      [] phase = "failed" /\ cg.fail # "" -> next_stmt
      [] OTHER -> 0

\* C7: every top-level While statement gen_stmt has been given is lowered as a
\* loop: generation goes on, and the output holds a label followed later by a
\* `je` to a second label, a `jmp` back to the first, and the second label.
C7_WhileIsLowered ==
    \A w \in 1..Reached :
        stmts[w][1] = "While" =>
            /\ cg.fail = ""
            /\ \E top \in LabelDefs(cg.output), back \in Jumps(cg.output, "jmp {}"),
                  exit \in Jumps(cg.output, "je {}"), end \in LabelDefs(cg.output) :
                    /\ top < exit /\ exit < back /\ back < end
                    /\ cg.output[back][3] = cg.output[top][3]
                    /\ cg.output[exit][3] = cg.output[end][3]

RECURSIVE HasPlainUnary(_)
HasPlainUnary(e) ==
    CASE e[1] = "BinOp" -> HasPlainUnary(e[2]) \/ HasPlainUnary(e[4])
      [] e[1] = "UnaryOp" -> e[2] # "Sub" \/ HasPlainUnary(e[3])
      [] OTHER -> FALSE

RECURSIVE StmtsHavePlainUnary(_)
StmtHasPlainUnary(s) ==
    CASE s[1] = "Let" -> HasPlainUnary(s[3])
      [] s[1] = "Exit" -> HasPlainUnary(s[2])
      [] s[1] = "While" -> HasPlainUnary(s[2]) \/ StmtsHavePlainUnary(s[3])
      [] s[1] = "If" ->
            \/ HasPlainUnary(s[2])
            \/ StmtsHavePlainUnary(s[3])
            \/ \E i \in 1..Len(s[4]) :
                  HasPlainUnary(s[4][i][1]) \/ StmtsHavePlainUnary(s[4][i][2])
            \/ (s[5][1] = "Some" /\ StmtsHavePlainUnary(s[5][2]))

StmtsHavePlainUnary(body) ==
    \E i \in 1..Len(body) : StmtHasPlainUnary(body[i])

\* C8: generate returns no output for a program with a unary operator other than
\* Sub: lowering such a node is a failure.
C8_PlainUnaryRejected ==
    phase = "done" => ~StmtsHavePlainUnary(stmts)

(***************************************************************************)
(* The memory events of a statement sequence in generation order           *)
(* (depth-first, source order; the right operand of a binary operation     *)
(* before the left): <<"load", name>> for an identifier reference,         *)
(* <<"store", name>> for a Let, <<"while">> for a While statement.         *)
(***************************************************************************)
RECURSIVE ExprEvents(_)
ExprEvents(e) ==
    CASE e[1] = "Num" -> <<>>
      [] e[1] = "Ident" -> <<<<"load", e[2]>>>>
      [] e[1] = "BinOp" -> ExprEvents(e[4]) \o ExprEvents(e[2])
      [] e[1] = "UnaryOp" -> ExprEvents(e[3])

RECURSIVE Events(_)
RECURSIVE ElifEvents(_)
ElifEvents(elifs) ==
    IF elifs = <<>> THEN <<>>
    ELSE ExprEvents(Head(elifs)[1]) \o Events(Head(elifs)[2]) \o ElifEvents(Tail(elifs))

StmtEvents(s) ==
    CASE s[1] = "Let" -> ExprEvents(s[3]) \o <<<<"store", s[2]>>>>
      [] s[1] = "Exit" -> ExprEvents(s[2])
      [] s[1] = "While" -> <<<<"while">>>>
      [] s[1] = "If" ->
            ExprEvents(s[2]) \o Events(s[3]) \o ElifEvents(s[4])
                \o (IF s[5][1] = "Some" THEN Events(s[5][2]) ELSE <<>>)

Events(body) ==
    IF body = <<>> THEN <<>> ELSE StmtEvents(Head(body)) \o Events(Tail(body))

\* the events of the statements generate has handed to gen_stmt so far
ReachedEvents == Events(SubSeq(stmts, 1, Reached))

\* event i reads a name no earlier Let has bound
Unbound(ev, i) ==
    ev[i][1] = "load" /\ \A j \in 1..(i - 1) : ev[j] # <<"store", ev[i][2]>>

\* event i is reached: generation has not stopped before it
Lowered(ev, i) ==
    \A j \in 1..(i - 1) : ev[j][1] # "while" /\ ~Unbound(ev, j)

IsLoad(line) == Len(line) = 3 /\ line[2] = "mov rax, [rbp{}]"

IsStore(line) == Len(line) = 3 /\ line[2] = "mov [rbp{}], rax"

IsMem(line) == IsLoad(line) \/ IsStore(line)

\* C3: generation aborts on an undefined variable exactly when an identifier
\* reference is lowered before any Let of its name (so `let x = x;` aborts when x
\* is not yet bound); an aborted generation returns no output, and every load of a
\* returned output reads a slot that an earlier instruction of the output stores.
C3_AbortIffUnbound ==
    /\ cg.fail = "undefined variable" <=>
          \E i \in 1..Len(ReachedEvents) :
              Lowered(ReachedEvents, i) /\ Unbound(ReachedEvents, i)
    /\ cg.fail # "" => asm = <<>> /\ phase = "failed"
    /\ \A i \in 1..Len(asm) :
          IsLoad(asm[i]) =>
              \E j \in 1..(i - 1) : IsStore(asm[j]) /\ asm[j][3] = asm[i][3]

C3_Witness ==
    /\ phase = "failed"
    /\ cg.fail = "undefined variable"
    /\ stmts[1] = <<"Let", NameX, IdX>>

\* the number of stores among the first i events
StoreRank(ev, i) == Cardinality({j \in 1..i : ev[j][1] = "store"})

\* the last Let of the name read by event i
LastStore(ev, i) ==
    CHOOSE j \in 1..(i - 1) :
        /\ ev[j] = <<"store", ev[i][2]>>
        /\ \A k \in (j + 1)..(i - 1) : ev[k] # ev[j]

\* C6: the allocation cursor is 0 before the first Let and 8 lower after each:
\* the k-th lowered Let stores to offset -8k, whether or not its name is bound
\* already, and every identifier reference loads from the offset of the most
\* recently lowered Let of its name.
C6_FreshSlotPerLet ==
    LET ev == ReachedEvents
        mem == SelectSeq(cg.output, IsMem)
    IN  /\ Len(mem) <= Len(ev)
        /\ cg.fail = "" => Len(mem) = Len(ev)
        /\ cg.fail = "" => cg.stack_offset = -8 * StoreRank(ev, Len(ev))
        /\ \A i \in 1..Len(mem) :
              IF ev[i][1] = "store"
              THEN IsStore(mem[i]) /\ mem[i][3] = -8 * StoreRank(ev, i)
              ELSE /\ IsLoad(mem[i])
                   /\ ~Unbound(ev, i)
                   /\ mem[i][3] = -8 * StoreRank(ev, LastStore(ev, i))

C6_Witness ==
    /\ phase = "done"
    /\ stmts = <<<<"Let", NameX, <<"Num", 1>>>>, <<"Let", NameX, <<"Num", 2>>>>,
                 <<"Exit", IdX>>>>
    /\ \E i \in 1..Len(asm) : asm[i] = <<"    ", "mov rax, [rbp{}]", -16>>

\* C4: in the output of a generation pass that has not failed, no two label
\* definitions have the same name, every `je`/`jmp` target is a defined label, and
\* the labels defined number exactly 0 .. label_counter - 1: every new_label call
\* took the next higher number and its label is defined once.
C4_LabelsUnique ==
    (phase \in {"statements", "done"} /\ cg.fail = "") =>
        LET out == cg.output
            defs == LabelDefs(out)
        IN  /\ \A i \in defs, j \in defs : i # j => out[i][3] # out[j][3]
            /\ \A k \in Jumps(out, "je {}") \cup Jumps(out, "jmp {}") :
                  \E i \in defs : out[i][3] = out[k][3]
            /\ {out[i][3][2] : i \in defs} = 0..(cg.label_counter - 1)
            /\ Cardinality(defs) = cg.label_counter
            /\ phase = "done" => asm = out

C4_Witness ==
    /\ phase = "done"
    /\ Cardinality(LabelDefs(asm)) >= 5
    /\ \E i \in 1..Len(stmts) : stmts[i][1] = "If" /\ stmts[i][3] # <<>>
                                   /\ stmts[i][3][1][1] = "If"

(***************************************************************************)
(* The part of the output that lowers one If statement.  Every If emits    *)
(* one "; if condition" line first and the definition of its if_end label  *)
(* last, so these lines nest like brackets; the k-th "; if condition" line *)
(* of the output belongs to the k-th If statement in generation order.     *)
(***************************************************************************)
IsIfOpen(line) == line = <<"    ", "; if condition">>

IsEndDef(line) == Len(line) = 3 /\ line[2] = "{}:" /\ line[3][1] = "if_end"

Depth(out, i) ==
    Cardinality({j \in 1..i : IsIfOpen(out[j])})
    - Cardinality({j \in 1..(i - 1) : IsEndDef(out[j])})

\* the line that closes the If opened at line o
Close(out, o) ==
    CHOOSE c \in o..Len(out) :
        /\ IsEndDef(out[c]) /\ Depth(out, c) = Depth(out, o)
        /\ \A d \in o..(c - 1) : ~(IsEndDef(out[d]) /\ Depth(out, d) = Depth(out, o))

\* the lines of the If opened at line o that are not lines of an If nested in it
Own(out, o) == {i \in o..Close(out, o) : Depth(out, i) = Depth(out, o)}

RECURSIVE IfNodes(_)
RECURSIVE ElifIfNodes(_)
ElifIfNodes(elifs) ==
    IF elifs = <<>> THEN <<>> ELSE IfNodes(Head(elifs)[2]) \o ElifIfNodes(Tail(elifs))

\* the If statements of a statement sequence in generation order
IfNodes(body) ==
    IF body = <<>> THEN <<>>
    ELSE LET s == Head(body)
         IN  (IF s[1] = "If"
              THEN <<s>> \o IfNodes(s[3]) \o ElifIfNodes(s[4])
                       \o (IF s[5][1] = "Some" THEN IfNodes(s[5][2]) ELSE <<>>)
              ELSE <<>>) \o IfNodes(Tail(body))

\* the elements of a set of line numbers in increasing order
RECURSIVE Sorted(_)
Sorted(S) ==
    IF S = {} THEN <<>>
    ELSE LET m == CHOOSE x \in S : \A y \in S : x <= y
         IN  <<m>> \o Sorted(S \ {m})

\* The shape of the lowering of the If statement node opened at line o.  With
\* jumpAlways the then-body is followed by a `jmp` to the end label in every case;
\* without it an If that has neither elif nor else has no `jmp` at all.
IfShape(out, o, node, jumpAlways) ==
    LET own == Own(out, o)
        end == Close(out, o)
        n == Len(node[4])
        hasElse == node[5][1] = "Some"
        chain == n > 0 \/ hasElse
        jes == Sorted(own \cap Jumps(out, "je {}"))
        jmps == own \cap Jumps(out, "jmp {}")
        defs == own \cap LabelDefs(out)
        DefOf(k) == CHOOSE d \in defs : out[d][3] = out[jes[k]][3]
    IN  /\ Len(jes) = n + 1
        /\ \A a \in 1..Len(jes), b \in 1..Len(jes) : a # b => out[jes[a]][3] # out[jes[b]][3]
        /\ \A k \in 1..Len(jes) :
              /\ Cardinality({d \in defs : out[d][3] = out[jes[k]][3]}) = 1
              /\ jes[k] < DefOf(k)
              /\ k < Len(jes) =>
                    /\ DefOf(k) < jes[k + 1]
                    /\ out[DefOf(k) + 1] = <<"    ", "; elif condition">>
        /\ LET last == DefOf(n + 1)
           IN  CASE hasElse -> out[last + 1] = <<"    ", "; else block">> /\ last < end
                 [] chain -> last + 1 = end
                 [] OTHER -> last = end
        /\ Cardinality({d \in defs : IsEndDef(out[d])}) = 1
        /\ \A j \in jmps : out[j][3] = out[end][3]
        /\ (chain \/ jumpAlways) =>
              /\ Cardinality(jmps) = n + 1
              /\ \A k \in 1..(n + 1) : DefOf(k) - 1 \in jmps
        /\ ~(chain \/ jumpAlways) => jmps = {}
        /\ hasElse => \A j \in jmps : j < DefOf(n + 1)

IfShapes(jumpAlways) ==
    (phase \in {"statements", "done"} /\ cg.fail = "") =>
        LET out == cg.output
            opens == Sorted({i \in 1..Len(out) : IsIfOpen(out[i])})
            nodes == IfNodes(SubSeq(stmts, 1, Reached))
        IN  /\ Len(opens) = Len(nodes)
            /\ \A k \in 1..Len(opens) : IfShape(out, opens[k], nodes[k], jumpAlways)

\* C5 as stated: an If statement with N elif branches lowers to N + 1 `je` lines
\* with distinct targets, each target defined once, after its `je` and directly
\* before the next elif condition (the last before the else body or the end),
\* and one end label that is the target of a `jmp` after the then-body and after
\* every elif body and that the else body falls through to.
C5_IfShapeAsStated == IfShapes(TRUE)

\* C5 as amended: the same, except that an If statement with no elif and no else
\* has no `jmp`: its only `je` targets the end label and the then-body falls
\* through to it.
C5_IfShape == IfShapes(FALSE)

C5_Witness ==
    /\ phase = "done"
    /\ \E i \in 1..Len(stmts) :
          /\ stmts[i][1] = "If" /\ Len(stmts[i][4]) = 2 /\ stmts[i][5][1] = "Some"
          /\ stmts[i][3] # <<>> /\ stmts[i][3][1][1] = "If"
    /\ Cardinality(Jumps(asm, "jmp {}")) >= 3

(***************************************************************************)
(* The expression grammar of the language, read off a token sequence       *)
(* without the parser: an operator token is binary when it follows an      *)
(* operand, and an expression splits at the last binary operator of its    *)
(* loosest tier that is outside every parenthesis.                         *)
(***************************************************************************)
IsExprInput(toks) ==
    LET semis == {i \in 1..Len(toks) : toks[i] = Tok("Semicolon")}
    IN  /\ Len(toks) >= 4 /\ Len(toks) \in semis
        /\ toks[1] = Tok("Let") /\ toks[2][1] = "Ident" /\ toks[3] = Tok("Equal")
        /\ \/ semis = {Len(toks)}
           \/ /\ semis = {5, Len(toks)} /\ Len(toks) >= 9
              /\ toks[4][1] = "Number"
              /\ toks[6] = Tok("Let") /\ toks[7][1] = "Ident" /\ toks[8] = Tok("Equal")

\* the tokens of the initializer of the last Let of an expression input
ExprOf(toks) ==
    IF Len(toks) > 5 /\ toks[5] = Tok("Semicolon")
    THEN SubSeq(toks, 9, Len(toks) - 1)
    ELSE SubSeq(toks, 4, Len(toks) - 1)

ParenDepth(e, i) ==
    Cardinality({j \in 1..(i - 1) : e[j] = Tok("LParen")})
    - Cardinality({j \in 1..(i - 1) : e[j] = Tok("RParen")})

BinaryPos(e, i) == i > 1 /\ e[i - 1][1] \in {"Ident", "Number", "RParen"}

TierOf(tok) ==
    CASE tok[1] \in {"EqualEqual", "NotEqual", "Greater", "GreaterEqual", "Less",
                     "LessEqual"} -> 1
      [] tok[1] \in {"Plus", "Minus"} -> 2
      [] tok[1] \in {"Asterisk", "Slash"} -> 3
      [] OTHER -> 0

OpOf(tok) ==
    CASE tok[1] = "EqualEqual" -> "Eq"
      [] tok[1] = "NotEqual" -> "NotEq"
      [] tok[1] = "Greater" -> "Gt"
      [] tok[1] = "GreaterEqual" -> "Gte"
      [] tok[1] = "Less" -> "Lt"
      [] tok[1] = "LessEqual" -> "Lte"
      [] tok[1] = "Plus" -> "Add"
      [] tok[1] = "Minus" -> "Sub"
      [] tok[1] = "Asterisk" -> "Mul"
      [] tok[1] = "Slash" -> "Div"

Splits(e, t) ==
    {i \in 1..Len(e) : TierOf(e[i]) = t /\ BinaryPos(e, i) /\ ParenDepth(e, i) = 0}

\* e is one parenthesized group
Wrapped(e) ==
    /\ Len(e) >= 2 /\ e[1] = Tok("LParen") /\ e[Len(e)] = Tok("RParen")
    /\ \A i \in 2..Len(e) : ParenDepth(e, i) >= 1

IsAtom(e) == Len(e) = 1 /\ e[1][1] \in {"Ident", "Number"}

NoTree == <<"NoTree">>

RECURSIVE TierTree(_)
TierTree(e) ==
    IF \E t \in 1..3 : Splits(e, t) # {}
    THEN LET t == CHOOSE u \in 1..3 : Splits(e, u) # {} /\ \A v \in 1..(u - 1) : Splits(e, v) = {}
             i == CHOOSE k \in Splits(e, t) : \A m \in Splits(e, t) : m <= k
             l == TierTree(SubSeq(e, 1, i - 1))
             r == TierTree(SubSeq(e, i + 1, Len(e)))
         IN  IF l = NoTree \/ r = NoTree THEN NoTree ELSE <<"BinOp", l, OpOf(e[i]), r>>
    ELSE IF e # <<>> /\ TierOf(e[1]) = 2
    THEN IF IsAtom(Tail(e)) \/ Wrapped(Tail(e))
         THEN LET x == TierTree(Tail(e))
              IN  IF x = NoTree THEN NoTree ELSE <<"UnaryOp", OpOf(e[1]), x>>
         ELSE NoTree
    ELSE IF Wrapped(e) THEN TierTree(SubSeq(e, 2, Len(e) - 1))
    ELSE IF IsAtom(e) THEN <<(IF e[1][1] = "Number" THEN "Num" ELSE "Ident"), e[1][2]>>
    ELSE NoTree

\* C9: parsing `let n = e;` succeeds exactly when e is a well-formed expression,
\* and then the initializer is the tree of three left-associative tiers,
\* comparison < additive < multiplicative: e splits at its last comparison
\* operator outside parentheses, else at its last additive one, else at its last
\* multiplicative one.
C9_TieredLeftAssoc ==
    [][(phase = "parse" /\ IsExprInput(tokens)) =>
          LET t == TierTree(ExprOf(tokens))
          IN  /\ t # NoTree <=> phase' = "prologue"
              /\ t # NoTree => /\ stmts'[Len(stmts')][1] = "Let"
                                /\ stmts'[Len(stmts')][3] = t
                                /\ tokens' = <<>>]_vars

C9_Witness ==
    /\ phase = "prologue"
    /\ Len(stmts) = 2
    /\ stmts[2][1] = "Let"
    /\ stmts[2][3] = <<"BinOp", <<"BinOp", <<"Ident", NameA>>, "Lt", <<"Ident", NameA>>>>,
                       "Lt", <<"Ident", NameA>>>>

\* the UnaryOp nodes of an expression, in the order of their signs in the text
RECURSIVE UnaryNodes(_)
UnaryNodes(e) ==
    CASE e[1] = "BinOp" -> UnaryNodes(e[2]) \o UnaryNodes(e[4])
      [] e[1] = "UnaryOp" -> <<e>> \o UnaryNodes(e[3])
      [] OTHER -> <<>>

\* the tokens of an expression without its parentheses
RECURSIVE Yield(_)
Yield(e) ==
    CASE e[1] = "Num" -> <<<<"Number", e[2]>>>>
      [] e[1] = "Ident" -> <<<<"Ident", e[2]>>>>
      [] e[1] = "BinOp" -> Yield(e[2]) \o <<OpToken(e[3])>> \o Yield(e[4])
      [] e[1] = "UnaryOp" -> <<OpToken(e[2])>> \o Yield(e[3])

NotParen(tok) == tok[1] \notin {"LParen", "RParen"}

\* the primary that starts at token j: one literal or identifier, or the
\* parenthesized group opened there
PrimaryAt(e, j) ==
    IF e[j] = Tok("LParen")
    THEN LET c == CHOOSE k \in j..Len(e) :
                      /\ ParenDepth(e, k + 1) = ParenDepth(e, j)
                      /\ \A m \in j..(k - 1) : ParenDepth(e, m + 1) > ParenDepth(e, j)
         IN  SubSeq(e, j, c)
    ELSE <<e[j]>>

\* the Sub nodes of an expression in the order gen_expr lowers them
RECURSIVE ExprNegs(_)
ExprNegs(e) ==
    CASE e[1] = "BinOp" -> ExprNegs(e[4]) \o ExprNegs(e[2])
      [] e[1] = "UnaryOp" -> ExprNegs(e[3]) \o (IF e[2] = "Sub" THEN <<e>> ELSE <<>>)
      [] OTHER -> <<>>

RECURSIVE Negs(_)
RECURSIVE ElifNegs(_)
ElifNegs(elifs) ==
    IF elifs = <<>> THEN <<>>
    ELSE ExprNegs(Head(elifs)[1]) \o Negs(Head(elifs)[2]) \o ElifNegs(Tail(elifs))

Negs(body) ==
    IF body = <<>> THEN <<>>
    ELSE LET s == Head(body)
         IN  (CASE s[1] = "Let" -> ExprNegs(s[3])
                [] s[1] = "Exit" -> ExprNegs(s[2])
                [] s[1] = "While" -> <<>>
                [] s[1] = "If" ->
                      ExprNegs(s[2]) \o Negs(s[3]) \o ElifNegs(s[4])
                          \o (IF s[5][1] = "Some" THEN Negs(s[5][2]) ELSE <<>>))
             \o Negs(Tail(body))

\* after a successful parse of `let n = e;`: the UnaryOp nodes of the tree are
\* the signs of e that do not follow an operand, and the operand of each is the
\* one primary that follows its sign
UnaryTakesOnePrimary ==
    (phase = "parse" /\ IsExprInput(tokens) /\ phase' = "prologue") =>
        LET e == ExprOf(tokens)
            signs == Sorted({i \in 1..Len(e) : TierOf(e[i]) = 2 /\ ~BinaryPos(e, i)})
            nodes == UnaryNodes(stmts'[Len(stmts')][3])
        IN  /\ Len(nodes) = Len(signs)
            /\ \A k \in 1..Len(nodes) :
                  /\ nodes[k][2] = OpOf(e[signs[k]])
                  /\ Yield(nodes[k][3]) = SelectSeq(PrimaryAt(e, signs[k] + 1), NotParen)

\* in the output of a pass that has not failed there is one `neg rax` for every
\* Sub node lowered, and the `neg rax` of a Sub node whose operand is a literal or
\* an identifier directly follows the load of that operand
NegFollowsOperand ==
    (phase \in {"statements", "done"} /\ cg.fail = "") =>
        LET out == cg.output
            negs == Sorted({i \in 1..Len(out) : out[i] = <<"    ", "neg rax">>})
            nodes == Negs(SubSeq(stmts, 1, Reached))
        IN  /\ Len(negs) = Len(nodes)
            /\ \A k \in 1..Len(negs) :
                  LET x == nodes[k][3]
                      before == out[negs[k] - 1]
                  IN  /\ x[1] = "Num" => before = <<"    ", "mov rax, {}", x[2]>>
                      /\ x[1] = "Ident" => IsLoad(before)

\* C10: a leading `+` or `-` takes exactly the one primary after it as its operand
\* (`-a*a` is BinOp(UnaryOp(Sub, a), Mul, a)), and the `neg rax` of a negated
\* literal or identifier is emitted right after its load, before the `imul` of an
\* enclosing product.
C10_UnaryBindsOnePrimary == [][UnaryTakesOnePrimary]_vars /\ []NegFollowsOperand

C10_Witness ==
    /\ phase = "done"
    /\ stmts = <<<<"Exit", <<"BinOp", <<"UnaryOp", "Sub", <<"Num", 2>>>>, "Mul",
                             <<"Num", 3>>>>>>>>
    /\ \E i \in 1..Len(asm) :
          /\ asm[i] = <<"    ", "mov rax, {}", 2>>
          /\ asm[i + 1] = <<"    ", "neg rax">>
          /\ \E j \in (i + 2)..Len(asm) : asm[j] = <<"    ", "imul rax, rbx">>

\* the longest prefix of s made of decimal digits
RECURSIVE DigitRun(_)
DigitRun(s) ==
    IF s # <<>> /\ Head(s) \in Digits THEN <<Head(s)>> \o DigitRun(Tail(s)) ELSE <<>>

\* the decimal value of a digit sequence modulo 2^32, as <<high, low>> halves of
\* 16 bits each
RECURSIVE DecimalMod32(_)
DecimalMod32(run) ==
    IF run = <<>> THEN <<0, 0>>
    ELSE LET front == DecimalMod32(SubSeq(run, 1, Len(run) - 1))
             low == front[2] * 10 + DigitValue(run[Len(run)])
         IN  <<(front[1] * 10 + (low \div 65536)) % 65536, low % 65536>>

\* the halves of the two's complement representation of an i32
TwosComplement(v) == <<(v \div 65536) % 65536, v % 65536>>

\* C11: a tokenizer iteration that starts at a decimal digit does not fail; it
\* consumes the whole run of digits and appends one Number token whose value is
\* the run's decimal value modulo 2^32 read as a two's complement number.
C11_NumberWraps ==
    [][(phase = "lex" /\ input # <<>> /\ Head(input) \in Digits) =>
          LET run == DigitRun(input)
          IN  /\ phase' = "lex"
              /\ input' = SubSeq(input, Len(run) + 1, Len(input))
              /\ Len(tokens') = Len(tokens) + 1
              /\ tokens'[Len(tokens')][1] = "Number"
              /\ TwosComplement(tokens'[Len(tokens')][2]) = DecimalMod32(run)]_vars

\* the names the Lets among the first i events have bound
BoundBy(ev, i) == {ev[j][2] : j \in {k \in 1..i : ev[k][1] = "store"}}

\* the symbol table after the first i events when entries are only ever added or
\* overwritten: every name bound so far, at the slot of its latest Let
FlatTable(ev, i) ==
    [n \in BoundBy(ev, i) |->
        -8 * StoreRank(ev, CHOOSE j \in 1..i :
                               /\ ev[j] = <<"store", n>>
                               /\ \A k \in (j + 1)..i : ev[k] # <<"store", n>>)]

SameTable(f, g) == DOMAIN f = DOMAIN g /\ \A n \in DOMAIN f : f[n] = g[n]

\* in a pass that has not failed the symbol table is the flat table of all Lets
\* lowered so far, inside blocks or not, and every load in the output reads the
\* slot the flat table of the events before it gives its name
TableIsFlat ==
    (phase \in {"statements", "done"} /\ cg.fail = "") =>
        LET ev == ReachedEvents
            mem == SelectSeq(cg.output, IsMem)
        IN  /\ SameTable(cg.vars, FlatTable(ev, Len(ev)))
            /\ Len(mem) = Len(ev)
            /\ \A i \in 1..Len(ev) :
                  ev[i][1] = "load" =>
                      /\ ev[i][2] \in BoundBy(ev, i - 1)
                      /\ mem[i] = <<"    ", "mov rax, [rbp{}]", FlatTable(ev, i - 1)[ev[i][2]]>>

\* no step removes an entry, and an entry changes only to a lower slot
TableGrows ==
    \A n \in DOMAIN cg.vars :
        n \in DOMAIN cg'.vars /\ cg'.vars[n] <= cg.vars[n]

\* C12: the symbol table is flat and only grows: a name bound by a Let inside
\* an if, elif or else body stays bound at its slot, until a later Let of the
\* name, for everything lowered afterwards (sibling branches and the statements
\* after the block); no entry is removed when a block ends.
C12_FlatSymbolTable == []TableIsFlat /\ [][TableGrows]_vars

C12_Witness ==
    /\ phase = "done"
    /\ stmts = <<<<"If", Num1, <<<<"Let", NameX, Num1>>>>,
                   <<<<IdX, <<<<"Let", NameY, IdX>>>>>>>>,
                   <<"Some", <<<<"Exit", IdY>>>>>>>>,
                 <<"Exit", IdY>>>>
    /\ cg.vars[NameX] = -8 /\ cg.vars[NameY] = -16
    /\ Cardinality({i \in 1..Len(asm) : asm[i] = <<"    ", "mov rax, [rbp{}]", -16>>}) = 2

\* the lines of the output that reserve the frame
FrameLines(out) == {i \in 1..Len(out) : Len(out[i]) = 3 /\ out[i][2] = "sub rsp, {}"}

\* the bytes the prologue reserved: the operand of its `sub rsp`, 0 without one
Reserved(out) == IF FrameLines(out) = {} THEN 0 ELSE out[CHOOSE i \in FrameLines(out) : TRUE][3]

\* the number of Let statements at top level
TopLevelLets == Cardinality({i \in 1..Len(stmts) : stmts[i][1] = "Let"})

\* C13: once generation has started the output reserves the frame in the
\* prologue only, before the first statement's code: no `sub rsp` when the
\* program has no Let at top level, else one `sub rsp` of 8k bytes rounded up to
\* a multiple of 16, k the number of top-level Lets; the Lets inside bodies are
\* not counted, yet the i-th Let lowered, nested or not, stores to [rbp-8i].
C13_FrameFromTopLevelLets ==
    cg.output # <<>> =>
        LET out == cg.output
            k == TopLevelLets
            stores == SelectSeq(out, IsStore)
        IN  /\ k = 0 => FrameLines(out) = {}
            /\ k > 0 => /\ FrameLines(out) = {11}
                        /\ out[10] = <<"    ", "mov rbp, rsp">>
                        /\ Reserved(out) % 16 = 0
                        /\ Reserved(out) >= 8 * k /\ Reserved(out) < 8 * k + 16
            /\ \A i \in 1..Len(stores) : stores[i][3] = -8 * i
            /\ cg.fail = "" =>
                  Len(stores) = Cardinality({j \in 1..Len(ReachedEvents) :
                                                ReachedEvents[j][1] = "store"})

\* a Let in an elif body stores below the 16 bytes reserved for one top-level Let
C13_Witness ==
    /\ phase = "done"
    /\ TopLevelLets = 1
    /\ Reserved(asm) = 16
    /\ \E i \in 1..Len(asm) : IsStore(asm[i]) /\ asm[i][3] = -24

\* the BinOp nodes of an expression in the order of their `push rax`: a node
\* pushes after its right operand and before its left operand
RECURSIVE ExprPushes(_)
ExprPushes(e) ==
    CASE e[1] = "BinOp" -> ExprPushes(e[4]) \o <<e>> \o ExprPushes(e[2])
      [] e[1] = "UnaryOp" -> ExprPushes(e[3])
      [] OTHER -> <<>>

RECURSIVE Pushes(_)
RECURSIVE ElifPushes(_)
ElifPushes(elifs) ==
    IF elifs = <<>> THEN <<>>
    ELSE ExprPushes(Head(elifs)[1]) \o Pushes(Head(elifs)[2]) \o ElifPushes(Tail(elifs))

Pushes(body) ==
    IF body = <<>> THEN <<>>
    ELSE LET s == Head(body)
         IN  (CASE s[1] = "Let" -> ExprPushes(s[3])
                [] s[1] = "Exit" -> ExprPushes(s[2])
                [] s[1] = "While" -> <<>>
                [] s[1] = "If" ->
                      ExprPushes(s[2]) \o Pushes(s[3]) \o ElifPushes(s[4])
                          \o (IF s[5][1] = "Some" THEN Pushes(s[5][2]) ELSE <<>>))
             \o Pushes(Tail(body))

IsPush(line) == line = <<"    ", "push rax">>

IsPop(line) == line = <<"    ", "pop rbx">>

\* the number of values the expression code has on the stack after line i
StackDepth(out, i) ==
    Cardinality({j \in 1..i : IsPush(out[j])}) - Cardinality({j \in 1..i : IsPop(out[j])})

\* StackDepth after every line of the output, computed in one pass
RECURSIVE StackDepths(_, _, _)
StackDepths(out, i, acc) ==
    IF i > Len(out) THEN acc
    ELSE LET before == IF i = 1 THEN 0 ELSE acc[i - 1]
         IN  StackDepths(out, i + 1,
                         Append(acc, CASE IsPush(out[i]) -> before + 1
                                       [] IsPop(out[i]) -> before - 1
                                       [] OTHER -> before))

\* the line that is part of the lowering of an expression
IsExprLine(line) ==
    \/ Len(line) = 3 /\ line[2] \in {"mov rax, {}", "mov rax, [rbp{}]"}
    \/ Len(line) = 2 /\ line[1] = "    "
          /\ line[2] \in {"push rax", "pop rbx", "add rax, rbx", "sub rax, rbx",
                          "imul rax, rbx", "cqo", "idiv rbx", "cmp rax, rbx", "sete al",
                          "setne al", "setg al", "setge al", "setl al", "setle al",
                          "movzx rax, al", "neg rax"}

\* the first instruction of `left OP right` with left in rax and right in rbx
CombineLine(op) ==
    CASE op = "Add" -> "add rax, rbx"
      [] op = "Sub" -> "sub rax, rbx"
      [] op = "Mul" -> "imul rax, rbx"
      [] op = "Div" -> "cqo"
      [] OTHER -> "cmp rax, rbx"

\* line i loads the literal or identifier x into rax
LoadsAtom(line, x) ==
    IF x[1] = "Num" THEN line = <<"    ", "mov rax, {}", x[2]>> ELSE IsLoad(line)

\* C14: in the output of a pass that has not failed the expression code is
\* stack-balanced: no prefix has more `pop rbx` than `push rax`, the stack is
\* empty at every line outside expression code and at the end, and the k-th
\* push is the push of the k-th binary node (right operand first): what precedes
\* it is the right operand's code, what lies between it and its matching pop is
\* the left operand's code, and the pop is followed by the node's operation.
C14_ExprStackBalanced ==
    (phase \in {"statements", "done"} /\ cg.fail = "") =>
        LET out == cg.output
            pushes == Sorted({i \in 1..Len(out) : IsPush(out[i])})
            nodes == Pushes(SubSeq(stmts, 1, Reached))
            depth == StackDepths(out, 1, <<>>)
            PopOf(p) == CHOOSE m \in (p + 1)..Len(out) :
                            /\ depth[m] = depth[p] - 1
                            /\ \A j \in p..(m - 1) : depth[j] >= depth[p]
        IN  /\ \A i \in 1..Len(out) :
                  /\ depth[i] >= 0
                  /\ ~IsExprLine(out[i]) => depth[i] = 0
            /\ depth[Len(out)] = 0
            /\ Len(pushes) = Len(nodes)
            /\ \A k \in 1..Len(pushes) :
                  LET p == pushes[k]
                      m == PopOf(p)
                      left == nodes[k][2]
                      right == nodes[k][4]
                  IN  /\ IsPop(out[m])
                      /\ out[m + 1] = <<"    ", CombineLine(nodes[k][3])>>
                      /\ Cardinality({j \in p..m : IsPush(out[j])}) = 1 + Len(ExprPushes(left))
                      /\ left[1] \in {"Num", "Ident"} => m = p + 2 /\ LoadsAtom(out[p + 1], left)
                      /\ right[1] \in {"Num", "Ident"} => LoadsAtom(out[p - 1], right)

\* `a*a+a`: the product is lowered while the right operand of the sum is pushed
C14_Witness ==
    /\ phase = "done"
    /\ Cardinality({i \in 1..Len(asm) : IsPush(asm[i])}) = 2
    /\ Cardinality({i \in 1..Len(asm) : IsPop(asm[i])}) = 2
    /\ \E i \in 1..Len(asm) : StackDepth(asm, i) = 2

\* a statement sequence has a Let inside the body of an If or of a While
RECURSIVE HasNestedLet(_, _)
HasNestedLet(body, nested) ==
    \E i \in 1..Len(body) :
        LET s == body[i]
        IN  CASE s[1] = "Let" -> nested
              [] s[1] = "While" -> HasNestedLet(s[3], TRUE)
              [] s[1] = "If" ->
                    \/ HasNestedLet(s[3], TRUE)
                    \/ \E j \in 1..Len(s[4]) : HasNestedLet(s[4][j][2], TRUE)
                    \/ s[5][1] = "Some" /\ HasNestedLet(s[5][2], TRUE)
              [] OTHER -> FALSE

\* rsp - rbp after every line of the output, rbp being the frame pointer that
\* `mov rbp, rsp` sets: the entry rsp is one slot above it
RECURSIVE RspAfter(_, _, _)
RspAfter(out, i, acc) ==
    IF i > Len(out) THEN acc
    ELSE LET before == IF i = 1 THEN 8 ELSE acc[i - 1]
             line == out[i]
         IN  RspAfter(out, i + 1,
                      Append(acc, CASE line = <<"    ", "push rbp">> \/ IsPush(line) -> before - 8
                                    [] IsPop(line) -> before + 8
                                    [] Len(line) = 3 /\ line[2] = "sub rsp, {}" ->
                                          before - line[3]
                                    [] OTHER -> before))

\* C15: when every Let of the program is at top level, every slot the output
\* stores to or loads from lies inside the reserved frame, [rbp-reserved, rbp),
\* and every `push rax` writes its 8 bytes below the reserved frame, so below
\* every slot.
C15_SlotsInsideFrame ==
    (cg.output # <<>> /\ ~HasNestedLet(stmts, FALSE)) =>
        LET out == cg.output
            rsp == RspAfter(out, 1, <<>>)
        IN  /\ \A i \in 1..Len(out) :
                  /\ IsMem(out[i]) => out[i][3] >= -Reserved(out) /\ out[i][3] + 8 <= 0
                  /\ IsPush(out[i]) =>
                        /\ rsp[i] + 8 <= -Reserved(out)
                        /\ \A j \in 1..Len(out) : IsMem(out[j]) => rsp[i] + 8 <= out[j][3]
            /\ rsp[10] = 0

\* `let a = 1; let a = a*a+a;`: two slots in a frame of 16 bytes, two temporaries
C15_Witness ==
    /\ phase = "done"
    /\ ~HasNestedLet(stmts, FALSE)
    /\ TopLevelLets = 2
    /\ Reserved(asm) = 16
    /\ \E i \in 1..Len(asm) : IsStore(asm[i]) /\ asm[i][3] = -16
    /\ \E i \in 1..Len(asm) : IsPush(asm[i]) /\ RspAfter(asm, 1, <<>>)[i] = -32

====
